---- MODULE Spec2Model ----
(***************************************************************************)
(* Fastformer causal language model (src/fastformer.py).                   *)
(*                                                                         *)
(* A tensor is modelled by its shape and by the data of one batch row (no  *)
(* operation of the file mixes batch rows).  Floating point numbers are    *)
(* fixed-point integers with Unit standing for 1.0 and the sentinel NaN    *)
(* standing for the result of 0/0; exp underflows to 0 below ExpUnderflow  *)
(* as it does in float32.                                                  *)
(***************************************************************************)
EXTENDS Integers, Sequences, FiniteSets, TLC

(* ------------------------------ bounds -------------------------------- *)
MaxSeq == 3
MaxBatch == 2
MaxKernel == 3
MaxLayers == 2
HiddenSize == 2
VocabSize == 3
Unit == 8
DropInv == 2

(* --------------------------- float arithmetic ------------------------- *)
NaN == -1073741824
MaskBias == -10000
ExpUnderflow == -104
ExpOne == 256
ExpTerms == 24
ExpSat == 8

Max(a, b) == IF a >= b THEN a ELSE b
Min(a, b) == IF a <= b THEN a ELSE b

FAdd(a, b) == IF a = NaN \/ b = NaN THEN NaN ELSE a + b
FMul(a, b) == IF a = NaN \/ b = NaN THEN NaN ELSE a * b
\* product of two fixed-point numbers, as a fixed-point number
FMulU(a, b) == IF a = NaN \/ b = NaN THEN NaN ELSE (a * b) \div Unit
\* a / b where a is a sum weighted by the terms of b: b = 0 gives 0/0
FDiv(a, b) == IF a = NaN \/ b = NaN \/ b = 0 THEN NaN ELSE a \div b

RECURSIVE SqrtSearch(_, _, _)
SqrtSearch(n, lo, hi) ==
    IF lo >= hi THEN lo
    ELSE LET mid == (lo + hi + 1) \div 2
         IN  IF mid * mid <= n THEN SqrtSearch(n, mid, hi)
                               ELSE SqrtSearch(n, lo, mid - 1)
\* floor of the square root
ISqrt(n) == SqrtSearch(n, 0, Min(n, 46340))

RECURSIVE ExpSeries(_, _, _)
ExpSeries(y, n, term) ==
    IF n > ExpTerms \/ term = 0 THEN 0
    ELSE term + ExpSeries(y, n + 1, (term * y) \div (n * Unit))
\* ExpOne * e^(y/Unit) for 0 <= y, tabulated up to the saturation point
ExpTable == [y \in 0..(ExpSat * Unit) |-> ExpSeries(y, 1, ExpOne)]
ExpPos(y) == ExpTable[Min(y, ExpSat * Unit)]
\* torch.exp in float32: positive, and 0 once the argument is below the
\* underflow threshold; the result is scaled by ExpOne
ExpF(x) ==
    IF x = NaN THEN NaN
    ELSE IF x < ExpUnderflow * Unit THEN 0
    ELSE IF x >= 0 THEN ExpPos(x)
    ELSE Max(1, (ExpOne * ExpOne) \div ExpPos(-x))

\* nn.GELU, x * Phi(x) with Phi(x) taken as sigmoid(1.702 x)
Gelu(x) ==
    IF x = NaN THEN NaN
    ELSE LET e == ExpF((1702 * x) \div 1000)
         IN  (x * e) \div (ExpOne + e)

(* ------------------------------ vectors ------------------------------- *)
Dims == 1..HiddenSize

\* a sequence given as a function, with its elements computed once (TLC
\* keeps a function constructor unevaluated and computes an element anew
\* at each application)
Tuple(f) == f \o <<>>
Tuple2(f) == Tuple([i \in DOMAIN f |-> Tuple(f[i])])

RECURSIVE SumTo(_, _)
\* f[1] + ... + f[n]
SumTo(f, n) == IF n = 0 THEN 0 ELSE FAdd(SumTo(f, n - 1), f[n])

Dot(a, b) == SumTo([k \in Dims |-> FMul(a[k], b[k])], HiddenSize)

\* nn.LayerNorm over the hidden axis of one position (weight 1, bias 0)
LayerNorm(v) ==
    LET S  == SumTo(v, HiddenSize)
        c  == Tuple([k \in Dims |-> IF S = NaN THEN NaN ELSE HiddenSize * v[k] - S])
        ss == SumTo([k \in Dims |-> FMul(c[k], c[k])], HiddenSize)
        sd == IF ss = NaN THEN NaN ELSE ISqrt((16 * ss) \div HiddenSize)
    IN  Tuple([k \in Dims |-> IF sd = NaN THEN NaN
                              ELSE IF sd = 0 THEN 0
                              ELSE (4 * Unit * c[k]) \div sd])

\* nn.Linear without bias: W is a matrix [out][in] of whole numbers
Linear(W, v) ==
    Tuple([r \in DOMAIN W |->
              SumTo([c \in DOMAIN v |-> FMul(W[r][c], v[c])], Len(v))])
\* nn.Linear with bias b
LinearBias(W, b, v) ==
    Tuple([r \in DOMAIN W |->
              FAdd(SumTo([c \in DOMAIN v |-> FMul(W[r][c], v[c])], Len(v)), b[r])])

\* d_model**.5 as a fixed-point number
SqrtDim == ISqrt(HiddenSize * Unit * Unit)
\* a / d_model**.5
ScaleByDim(a) == IF a = NaN THEN NaN ELSE (a * Unit) \div SqrtDim

\* elementwise sum of two sequences of vectors (the residual connection)
AddRows(a, b) ==
    Tuple2([i \in DOMAIN a |-> [k \in DOMAIN a[i] |-> FAdd(a[i][k], b[i][k])]])

(* --------------------------- configuration ---------------------------- *)
\* seeds of the parameter initialisation and of the dropout generator
ParamSeeds == {0, 1}
DropSeeds == {0, 1}

\* the value a parameter tensor is initialised to at one index
Param(pseed, tag, r, c) == ((pseed + tag + r + 2 * c) % 3) - 1

\* hidden-state vectors fed to the modules
HiddenVecs ==
    { [k \in Dims |-> Unit * ((n + k) % 2)] : n \in 0..1 } \cup
    { [k \in Dims |-> Unit] }

\* nn.Dropout: identity in evaluation mode; in training mode an element is
\* zeroed by the generator's mask or scaled by 1/(1-p)
Dropout(rows, training, seed, site) ==
    IF ~training THEN rows
    ELSE Tuple2([i \in DOMAIN rows |-> [k \in DOMAIN rows[i] |->
            FMul(rows[i][k],
                 IF (seed + site + i + k) % 2 = 0 THEN DropInv ELSE 0)]])

(* ------------------------------- shapes ------------------------------- *)
ShapeError == <<-1>>

RECURSIVE BroadcastFrom(_, _, _)
\* broadcasting of two shapes, aligned at the last axis
BroadcastFrom(a, b, n) ==
    IF n = 0 THEN <<>>
    ELSE LET x    == IF n <= Len(a) THEN a[Len(a) - n + 1] ELSE 1
             y    == IF n <= Len(b) THEN b[Len(b) - n + 1] ELSE 1
             rest == BroadcastFrom(a, b, n - 1)
         IN  IF rest = ShapeError \/ (x # y /\ x # 1 /\ y # 1) THEN ShapeError
             ELSE <<Max(x, y)>> \o rest
Broadcast(a, b) ==
    IF a = ShapeError \/ b = ShapeError THEN ShapeError
    ELSE BroadcastFrom(a, b, Max(Len(a), Len(b)))

\* a += b: the result must have the shape of a
InplaceAddShape(a, b) == IF Broadcast(a, b) = a THEN a ELSE ShapeError

\* tensor.unsqueeze(dim), dim counted from 0
Unsqueeze(sh, dim) ==
    IF sh = ShapeError \/ dim > Len(sh) THEN ShapeError
    ELSE SubSeq(sh, 1, dim) \o <<1>> \o SubSeq(sh, dim + 1, Len(sh))

\* nn.Linear(nin, nout) and nn.LayerNorm(nin) act on the last axis
LinearShape(sh, nin, nout) ==
    IF sh = ShapeError \/ Len(sh) = 0 THEN ShapeError
    ELSE IF sh[Len(sh)] # nin THEN ShapeError
    ELSE SubSeq(sh, 1, Len(sh) - 1) \o <<nout>>
LayerNormShape(sh, nin) == LinearShape(sh, nin, nin)

\* batch_size, seq_len, d_model = hidden_states.shape
Unpack3(sh) == IF sh # ShapeError /\ Len(sh) = 3 THEN sh ELSE ShapeError

(* -------------------------- FastSelfAttention ------------------------- *)
Wquery(p)    == [r \in Dims |-> [c \in Dims |-> Param(p, 0, r, c)]]
query_att(p) == [c \in Dims |-> Param(p, 1, 1, c)]
Wkeys(p)     == [r \in Dims |-> [c \in Dims |-> Param(p, 2, r, c)]]
key_att(p)   == [c \in Dims |-> Param(p, 3, 1, c)]

\* the conversion done in place (attention_mask.sub_(1).mul_(10000)): the
\* caller's tensor holds the bias afterwards
MaskToBiasInPlace(mask) ==
    [bias |-> Tuple([i \in DOMAIN mask |-> (Unit - mask[i] * Unit) * MaskBias]),
     mask |-> Tuple([i \in DOMAIN mask |-> (Unit - mask[i] * Unit) * MaskBias])]

\* attention_mask = (1.0 - attention_mask) * -10000.0 : the bias is a new
\* tensor bound to the local name; "mask" is the caller's tensor afterwards
MaskToBias(mask) ==
    [bias |-> Tuple([i \in DOMAIN mask |-> (Unit - mask[i] * Unit) * MaskBias]),
     mask |-> mask]

\* element i of a tensor broadcast along the sequence axis
AtPos(t, i) == IF Len(t) = 1 THEN t[1] ELSE t[i]

\* pooling over the whole sequence (torch.sum in place of torch.cumsum), as
\* in the bidirectional Fastformer
GlobalPool(w, v) ==
    Tuple2([i \in DOMAIN v |-> [k \in Dims |->
        FDiv(SumTo([t \in DOMAIN v |-> FMul(w[t], v[t][k])], Len(v)),
             SumTo(w, Len(v)))]])

\* torch.cumsum(w * v, dim = 1) / torch.cumsum(w, dim = 1) at every position
CumPool(w, v) ==
    Tuple2([i \in DOMAIN v |-> [k \in Dims |->
        FDiv(SumTo([t \in DOMAIN v |-> FMul(w[t], v[t][k])], i), SumTo(w, i))]])

\* shape of the result of FastSelfAttention.forward
AttentionShape(xsh, msh) ==
    LET hs     == Unpack3(LayerNormShape(xsh, HiddenSize))
        query  == LinearShape(hs, HiddenSize, HiddenSize)
        keys   == LinearShape(hs, HiddenSize, HiddenSize)
        bias   == Unsqueeze(msh, 2)
        qw     == InplaceAddShape(LinearShape(query, HiddenSize, 1), bias)
        pquery == Broadcast(Broadcast(qw, query), qw)
        mixed  == Broadcast(pquery, keys)
        kw     == InplaceAddShape(LinearShape(mixed, HiddenSize, 1), bias)
        pkeys  == Broadcast(Broadcast(kw, mixed), kw)
    IN  Broadcast(pkeys, query)

\* FastSelfAttention.forward on one batch row x (a sequence of vectors)
FastSelfAttention(p, xsh, x, msh, mask, training, seed, site) ==
    LET shape  == AttentionShape(xsh, msh)
        Pos    == DOMAIN x
        hs     == Tuple([i \in Pos |-> LayerNorm(x[i])])
        query  == Tuple([i \in Pos |-> Linear(Wquery(p), hs[i])])
        keys   == Tuple([i \in Pos |-> Linear(Wkeys(p), hs[i])])
        values == query
        mb     == MaskToBias(mask)
        qw     == Tuple([i \in Pos |->
                     ExpF(FAdd(ScaleByDim(Dot(query_att(p), query[i])),
                               AtPos(mb.bias, i)))])
        pquery == CumPool(qw, query)
        mixed  == Tuple2([i \in Pos |-> [k \in Dims |->
                     FMulU(pquery[i][k], keys[i][k])]])
        kw     == Tuple([i \in Pos |->
                     ExpF(FAdd(ScaleByDim(Dot(key_att(p), mixed[i])),
                               AtPos(mb.bias, i)))])
        pkeys  == CumPool(kw, mixed)
        wv     == Tuple2([i \in Pos |-> [k \in Dims |->
                     FMulU(pkeys[i][k], values[i][k])]])
    IN  IF shape = ShapeError
        THEN [shape |-> ShapeError, data |-> <<>>, qden |-> <<>>, kden |-> <<>>,
              bias |-> <<>>, mask |-> mb.mask]
        ELSE [shape |-> shape,
              data  |-> Dropout(wv, training, seed, site),
              qden  |-> Tuple([i \in Pos |-> SumTo(qw, i)]),
              kden  |-> Tuple([i \in Pos |-> SumTo(kw, i)]),
              bias  |-> mb.bias,
              mask  |-> mb.mask]

(* -------------------------- CausalConvolution ------------------------- *)
\* Conv1d weight [out channel][in channel of the group][tap]
ConvWeight(p, k, groups) ==
    [o \in Dims |-> [ci \in 1..(HiddenSize \div groups) |->
        [t \in 1..k |-> Param(p, 4 + t, o, ci)]]]

\* padding split between the two sides, as padding='same' does
CenteredPad(k) == [left |-> (k - 1) \div 2, right |-> (k - 1) - ((k - 1) \div 2)]
\* the zeros added after the sequence instead of before it
RightPad(k) == [left |-> 0, right |-> k - 1]
\* one zero too many on the left
WidePad(k) == [left |-> k, right |-> 0]

\* F.pad(mod, pad=(kernel_size-1, 0)): zeros added left and right of the
\* sequence axis
CausalPad(k) == [left |-> k - 1, right |-> 0]

Zeros(n) == [i \in 1..n |-> 0]

\* tensor.permute(0, 2, 1) on one batch row and on a shape
Permute(t) == Tuple2([a \in DOMAIN t[1] |-> [b \in DOMAIN t |-> t[b][a]]])
PermuteShape(sh) ==
    IF sh = ShapeError \/ Len(sh) # 3 THEN ShapeError ELSE <<sh[1], sh[3], sh[2]>>

PadShape(sh, pad) ==
    IF sh = ShapeError THEN ShapeError
    ELSE SubSeq(sh, 1, Len(sh) - 1) \o <<sh[Len(sh)] + pad.left + pad.right>>

\* nn.Conv1d(hidden, hidden, kernel_size = k, padding = 0) on (batch, C, L)
Conv1dShape(sh, k) ==
    IF sh = ShapeError \/ Len(sh) # 3 THEN ShapeError
    ELSE IF sh[2] # HiddenSize \/ sh[3] < k THEN ShapeError
    ELSE <<sh[1], HiddenSize, sh[3] - k + 1>>

\* the grouped convolution of channel-first data [channel][position]
Conv1d(W, k, groups, chan) ==
    LET g == HiddenSize \div groups
        L == Len(chan[1])
    IN  Tuple2([o \in Dims |-> [i \in 1..(L - k + 1) |->
            SumTo([n \in 1..(g * k) |->
                     FMul(W[o][((n - 1) \div k) + 1][((n - 1) % k) + 1],
                          chan[(((o - 1) \div g) * g) + ((n - 1) \div k) + 1]
                              [i + ((n - 1) % k)])],
                  g * k)]])

ConvolutionShape(xsh, k) ==
    LET norm   == LayerNormShape(xsh, HiddenSize)
        padded == PadShape(PermuteShape(norm), CausalPad(k))
    IN  PermuteShape(Conv1dShape(padded, k))

\* CausalConvolution.forward on one batch row
CausalConvolution(p, k, groups, xsh, x, training, seed, site) ==
    LET shape  == ConvolutionShape(xsh, k)
        norm   == Tuple([i \in DOMAIN x |-> LayerNorm(x[i])])
        mod    == Tuple2([i \in DOMAIN x |-> [c \in Dims |-> Gelu(norm[i][c])]])
        chan   == Permute(mod)
        pad    == CausalPad(k)
        padded == Tuple([c \in Dims |->
                     Zeros(pad.left) \o chan[c] \o Zeros(pad.right)])
        conv   == Conv1d(ConvWeight(p, k, groups), k, groups, padded)
    IN  IF shape = ShapeError
        THEN [shape |-> ShapeError, data |-> <<>>, pad |-> pad]
        ELSE [shape |-> shape,
              data  |-> Dropout(Permute(conv), training, seed, site),
              pad   |-> pad]

(* --------------------------- FastformerLayer -------------------------- *)
Wide == 1..(4 * HiddenSize)
boomW(p)   == [r \in Wide |-> [c \in Dims |-> Param(p, 8, r, c)]]
boomB(p)   == [r \in Wide |-> Unit * Param(p, 9, r, 1)]
unboomW(p) == [r \in Dims |-> [c \in Wide |-> Param(p, 10, r, c)]]
unboomB(p) == [r \in Dims |-> Unit * Param(p, 11, r, 1)]

BoomShape(xsh) ==
    LET norm == LayerNormShape(xsh, HiddenSize)
        wide == LinearShape(norm, HiddenSize, 4 * HiddenSize)
    IN  LinearShape(wide, 4 * HiddenSize, HiddenSize)

\* FastformerLayer.__boom on one batch row
Boom(p, xsh, x, training, seed, site) ==
    LET shape == BoomShape(xsh)
        norm  == Tuple([i \in DOMAIN x |-> LayerNorm(x[i])])
        wide  == Tuple([i \in DOMAIN x |-> LinearBias(boomW(p), boomB(p), norm[i])])
        act   == Tuple2([i \in DOMAIN x |-> [r \in Wide |-> Gelu(wide[i][r])]])
        back  == Tuple([i \in DOMAIN x |->
                    LinearBias(unboomW(p), unboomB(p), act[i])])
    IN  IF shape = ShapeError THEN [shape |-> ShapeError, data |-> <<>>]
        ELSE [shape |-> shape, data |-> Dropout(back, training, seed, site)]

\* mod = mod + block(mod): the residual connection around one block.  A
\* shape error raised by the block or by the sum ends the call.
Residual(st, name, blk) ==
    IF Broadcast(st.shape, blk.shape) = ShapeError
    THEN [st EXCEPT !.shape = ShapeError, !.data = <<>>]
    ELSE [st EXCEPT !.shape = Broadcast(st.shape, blk.shape),
                    !.data  = AddRows(st.data, blk.data),
                    !.trace = Append(st.trace,
                                     [block |-> name, input |-> st.data,
                                      output |-> blk.data])]

\* if self.convolve is True: mod = mod + self.convolutional_layer(mod)
LayerConvolution(lp, cfg, st, training, seed, site) ==
    IF ~cfg.convolve \/ st.shape = ShapeError THEN st
    ELSE Residual(st, "convolution",
                  CausalConvolution(lp, cfg.kernel_size, cfg.groups, st.shape,
                                    st.data, training, seed, site + 1))

\* the attention block's sum, with the mask and the bias it leaves behind
AttentionResidual(st, attn) ==
    Residual([st EXCEPT !.mask = attn.mask, !.bias = attn.bias], "attention", attn)

\* mod = mod + self.attention(mod, attention_mask)
LayerAttention(lp, st, msh, training, seed, site) ==
    IF st.shape = ShapeError THEN st
    ELSE AttentionResidual(st, FastSelfAttention(lp, st.shape, st.data, msh,
                                                 st.mask, training, seed, site + 2))

\* mod = mod + self.__boom(mod)
LayerBoom(lp, st, training, seed, site) ==
    IF st.shape = ShapeError THEN st
    ELSE Residual(st, "boom", Boom(lp, st.shape, st.data, training, seed, site + 3))

\* the layer with attention applied before the convolution
LayerAttentionFirst(lp, cfg, xsh, x, msh, mask, training, seed, site) ==
    LayerBoom(lp,
        LayerConvolution(lp, cfg,
            LayerAttention(lp,
                [shape |-> xsh, data |-> x, mask |-> mask, mask_in |-> mask,
                 bias |-> <<>>, trace |-> <<>>],
                msh, training, seed, site),
            training, seed, site),
        training, seed, site)

\* FastformerLayer.forward on one batch row.  lp seeds the layer's
\* parameters, site numbers its dropout modules.  "trace" lists the blocks
\* in the order they ran with the tensor each received and returned; "mask"
\* is the caller's attention mask after the call.
FastformerLayer(lp, cfg, xsh, x, msh, mask, training, seed, site) ==
    LayerBoom(lp,
        LayerAttention(lp,
            LayerConvolution(lp, cfg,
                [shape |-> xsh, data |-> x, mask |-> mask, mask_in |-> mask,
                 bias |-> <<>>, trace |-> <<>>],
                training, seed, site),
            msh, training, seed, site),
        training, seed, site)

(* -------------------------- FastformerDecoder ------------------------- *)
MaxPositionEmbeddings == MaxSeq

\* row i of the position embedding table (positions count from 0)
PositionEmbedding(p, i) == [k \in Dims |-> Unit * Param(p, 12, i, k)]

\* shape of LayerNorm(input_embs + position_embeddings)
EmbeddingShape(xsh) ==
    IF Unpack3(xsh) = ShapeError THEN ShapeError
    ELSE LayerNormShape(Broadcast(xsh, <<xsh[1], xsh[2], HiddenSize>>), HiddenSize)

\* the embeddings the layers start from: position embeddings added,
\* normalised, dropout applied
DecoderEmbeddings(p, xsh, x, mask, training, seed) ==
    IF EmbeddingShape(xsh) = ShapeError
    THEN [shape |-> ShapeError, data |-> <<>>, mask |-> mask, layers |-> <<>>,
          error |-> "shape"]
    ELSE IF xsh[2] > MaxPositionEmbeddings
    THEN [shape |-> ShapeError, data |-> <<>>, mask |-> mask, layers |-> <<>>,
          error |-> "IndexError"]
    ELSE [shape  |-> EmbeddingShape(xsh),
          data   |-> Dropout(
                       Tuple([i \in DOMAIN x |->
                           LayerNorm(Tuple([k \in Dims |->
                               FAdd(x[i][k], PositionEmbedding(p, i - 1)[k])]))]),
                       training, seed, 0),
          mask   |-> mask,
          layers |-> <<>>,
          error  |-> "none"]

\* layer_outputs = layer_module(layer_outputs, attention_mask)
AfterLayer(st, r) ==
    [shape  |-> r.shape, data |-> r.data, mask |-> r.mask,
     layers |-> Append(st.layers, [mask_in |-> r.mask_in, bias |-> r.bias]),
     error  |-> IF r.shape = ShapeError THEN "shape" ELSE "none"]

RECURSIVE RunLayers(_, _, _, _, _, _, _)
\* for i, layer_module in enumerate(self.decoders): layers l..num_hidden_layers
RunLayers(l, st, p, cfg, msh, training, seed) ==
    IF l > cfg.num_hidden_layers \/ st.error # "none" THEN st
    ELSE RunLayers(l + 1,
                   AfterLayer(st, FastformerLayer(p + l, cfg, st.shape, st.data,
                                                  msh, st.mask, training, seed,
                                                  3 * l)),
                   p, cfg, msh, training, seed)

\* FastformerDecoder.forward on one batch row.  "layers" lists, per layer,
\* the mask it received and the bias its attention applied.
FastformerDecoder(p, cfg, xsh, x, msh, mask, training, seed) ==
    RunLayers(1, DecoderEmbeddings(p, xsh, x, mask, training, seed),
              p, cfg, msh, training, seed)

(* ------------------------ FastformerForCausalLM ----------------------- *)
Vocab == 1..VocabSize
WeightNames == {"word_embedding", "proj_logits"}

\* nn.Embedding(vocab_size, hidden_size, padding_idx=0).weight
EmbeddingInit(p) ==
    Tuple2([v \in Vocab |-> [k \in Dims |->
        IF v = 1 THEN 0 ELSE Unit * Param(p, 13, v, k)]])
\* nn.Linear(hidden_size, vocab_size).weight and .bias
ProjInit(p) == Tuple2([v \in Vocab |-> [k \in Dims |-> Unit * Param(p, 14, v, k)]])
ProjBias(p) == [v \in Vocab |-> Unit * Param(p, 15, v, 1)]

\* the embedding's values copied into the projection's own parameter
CopyWeights(m) ==
    [m EXCEPT !.store[m.weight["proj_logits"]] =
                  m.store[m.weight["word_embedding"]]]

\* self.proj_logits.weight = self.word_embedding.weight : the attribute is
\* rebound to the embedding's parameter
TieWeights(m) ==
    [m EXCEPT !.weight["proj_logits"] = m.weight["word_embedding"]]

\* FastformerForCausalLM.__init__ : the two parameters are allocated in
\* storages 1 and 2, then tied.  "weight" maps a module to its storage.
Construct(p) ==
    TieWeights([weight |-> [n \in WeightNames |->
                               IF n = "word_embedding" THEN 1 ELSE 2],
                store  |-> <<EmbeddingInit(p), ProjInit(p)>>])

\* the tensor a module's weight attribute reads
Weight(m, n) == m.store[m.weight[n]]

LabelSmoothingTrain == 1
LabelSmoothingEval == 0

\* nn.CrossEntropyLoss(label_smoothing = tenths/10) applied to the
\* flattened logits and labels
CrossEntropyLoss(tenths, logits, labels) ==
    [label_smoothing |-> tenths, input |-> logits, target |-> labels]

\* self.training() : nn.Module.training is a bool attribute, and calling a
\* bool raises TypeError whatever its value
TrainingCall(training) == [raised |-> TRUE, value |-> training]

\* embds = self.word_embedding(input_ids)
WordEmbedding(m, ids) ==
    Tuple([i \in DOMAIN ids |-> Weight(m, "word_embedding")[ids[i] + 1]])

\* logits = self.proj_logits(layer_outputs)
ProjLogits(m, p, rows) ==
    Tuple2([i \in DOMAIN rows |-> [v \in Vocab |->
        FAdd(SumTo([k \in Dims |->
                       FMulU(Weight(m, "proj_logits")[v][k], rows[i][k])],
                   HiddenSize),
             ProjBias(p)[v])]])

\* the branch on self.training() and the return of (loss, logits)
LossAndLogits(dec, logits, labels, call) ==
    IF dec.error # "none"
    THEN [status |-> dec.error, shape |-> ShapeError, logits |-> <<>>,
          label_smoothing |-> -1, mask |-> dec.mask]
    ELSE IF call.raised
    THEN [status |-> "TypeError", shape |-> ShapeError, logits |-> <<>>,
          label_smoothing |-> -1, mask |-> dec.mask]
    ELSE [status |-> "returned",
          shape  |-> LinearShape(dec.shape, HiddenSize, VocabSize),
          logits |-> logits,
          label_smoothing |->
              IF call.value
              THEN CrossEntropyLoss(LabelSmoothingTrain, logits, labels).label_smoothing
              ELSE CrossEntropyLoss(LabelSmoothingEval, logits, labels).label_smoothing,
          mask   |-> dec.mask]

\* the head applied to the decoder's result
CausalLMHead(m, p, dec, labels, training) ==
    LossAndLogits(dec, ProjLogits(m, p, dec.data), labels, TrainingCall(training))

\* FastformerForCausalLM.forward on one batch row of token ids
FastformerForCausalLM(m, p, cfg, idsh, ids, labels, msh, mask, training, seed) ==
    CausalLMHead(m, p,
                 FastformerDecoder(p, cfg, idsh \o <<HiddenSize>>,
                                   WordEmbedding(m, ids),
                                   msh, mask, training, seed),
                 labels, training)

(* ---------------------------- state machine --------------------------- *)
VARIABLES
    config,     \* the configuration the modules were constructed with
    training,   \* nn.Module.training, the mode flag
    model,      \* the tied parameters: module -> storage, storage -> tensor
    last        \* the call in progress: its arguments and its result

vars == <<config, training, model, last>>

Configs ==
    [pseed : ParamSeeds, convolve : BOOLEAN, kernel_size : 1..MaxKernel,
     groups : {1, HiddenSize}, num_hidden_layers : 1..MaxLayers]

\* batch sizes of the calls: a single row and a full batch
Batches == {1, MaxBatch}
Seqs(s) == [1..s -> HiddenVecs]
\* shapes of attention mask offered for hidden states of shape (b, s, d)
MaskShapes(b, s) == {<<b, s>>, <<1, s>>, <<b, 1>>, <<b, s + 1>>, <<s>>}
MaskData(msh) == [1..msh[Len(msh)] -> {0, 1}]
\* the dropout generator is consulted in training mode only
Seeds == IF training THEN DropSeeds ELSE {0}

InitWith(C) ==
    /\ config \in C
    /\ training = TRUE
    /\ model = Construct(config.pseed)
    /\ last = [op |-> "none"]

Idle == last.op = "none"

\* model.train(mode) / model.eval(), between calls
SetTraining ==
    /\ Idle
    /\ \E mode \in BOOLEAN : training' = mode
    /\ UNCHANGED <<config, model, last>>

\* the caller drops the result of the call
Return ==
    /\ ~Idle
    /\ last' = [op |-> "none"]
    /\ UNCHANGED <<config, training, model>>

AttentionForward ==
    /\ Idle
    /\ \E b \in Batches, s \in 1..MaxSeq :
      \E x \in Seqs(s), msh \in MaskShapes(b, s), seed \in Seeds :
        \E mask \in MaskData(msh) :
          /\ last' = [op |-> "attention", xshape |-> <<b, s, HiddenSize>>,
                      x |-> x, mshape |-> msh, mask |-> mask,
                      training |-> training, seed |-> seed,
                      res |-> FastSelfAttention(config.pseed, <<b, s, HiddenSize>>,
                                                x, msh, mask, training, seed, 0)]
          /\ UNCHANGED <<config, training, model>>

ConvolutionForward ==
    /\ Idle
    /\ \E b \in Batches, s \in 1..MaxSeq :
         \E x \in Seqs(s), seed \in Seeds :
           /\ last' = [op |-> "convolution", xshape |-> <<b, s, HiddenSize>>,
                       x |-> x, training |-> training, seed |-> seed,
                       res |-> CausalConvolution(config.pseed, config.kernel_size,
                                                 config.groups, <<b, s, HiddenSize>>,
                                                 x, training, seed, 0)]
           /\ UNCHANGED <<config, training, model>>

BoomForward ==
    /\ Idle
    /\ \E b \in Batches, s \in 1..MaxSeq :
         \E x \in Seqs(s), seed \in Seeds :
           /\ last' = [op |-> "boom", xshape |-> <<b, s, HiddenSize>>,
                       x |-> x, training |-> training, seed |-> seed,
                       res |-> Boom(config.pseed, <<b, s, HiddenSize>>, x,
                                    training, seed, 0)]
           /\ UNCHANGED <<config, training, model>>

\* shapes of attention mask offered to the layer, the stack and the model
LayerMaskShapes(b, s) == {<<b, s>>, <<b, s + 1>>}
StackMaskShapes(b, s) == {<<b, s>>}

LayerForward ==
    /\ Idle
    /\ \E b \in {MaxBatch}, s \in 1..MaxSeq :
         \E x \in Seqs(s), msh \in LayerMaskShapes(b, s), seed \in Seeds :
           \E mask \in MaskData(msh) :
             /\ last' = [op |-> "layer", xshape |-> <<b, s, HiddenSize>>,
                         x |-> x, mshape |-> msh, mask |-> mask,
                         training |-> training, seed |-> seed,
                         res |-> FastformerLayer(config.pseed, config,
                                                 <<b, s, HiddenSize>>, x, msh, mask,
                                                 training, seed, 0)]
             /\ UNCHANGED <<config, training, model>>

DecoderForward ==
    /\ Idle
    /\ \E b \in {MaxBatch}, s \in 1..MaxSeq :
         \E x \in Seqs(s), msh \in StackMaskShapes(b, s), seed \in Seeds :
           \E mask \in MaskData(msh) :
             /\ last' = [op |-> "decoder", xshape |-> <<b, s, HiddenSize>>,
                         x |-> x, mshape |-> msh, mask |-> mask,
                         training |-> training, seed |-> seed,
                         res |-> FastformerDecoder(config.pseed, config,
                                                   <<b, s, HiddenSize>>, x, msh,
                                                   mask, training, seed)]
             /\ UNCHANGED <<config, training, model>>

\* token ids, and the two label sequences offered with them
Tokens == 0..(VocabSize - 1)
LabelSeqs(s) == {[i \in 1..s |-> 0], [i \in 1..s |-> i % VocabSize]}

ForwardCausalLM ==
    /\ Idle
    /\ \E b \in {MaxBatch}, s \in 1..MaxSeq :
         \E ids \in [1..s -> Tokens], labels \in LabelSeqs(s),
            msh \in StackMaskShapes(b, s), seed \in Seeds :
           \E mask \in MaskData(msh) :
             /\ last' = [op |-> "lm", idshape |-> <<b, s>>, ids |-> ids,
                         labels |-> labels, mshape |-> msh, mask |-> mask,
                         training |-> training, seed |-> seed,
                         res |-> FastformerForCausalLM(model, config.pseed, config,
                                                       <<b, s>>, ids, labels, msh,
                                                       mask, training, seed)]
             /\ UNCHANGED <<config, training, model>>

\* the value an optimizer step writes into a weight
UpdatedWeight(t) ==
    Tuple2([v \in Vocab |-> [k \in Dims |-> Unit * Param(t, 16, v, k)]])

\* the optimizer updates a weight in place, through either module, between
\* two calls
OptimizerStep ==
    /\ Idle
    /\ \E n \in WeightNames, t \in ParamSeeds :
         model' = [model EXCEPT !.store[model.weight[n]] = UpdatedWeight(t)]
    /\ UNCHANGED <<config, training, last>>

(* --------------------------- specifications --------------------------- *)
\* one module of each kind, with every operation
Init == InitWith(Configs)
Next ==
    \/ SetTraining
    \/ OptimizerStep
    \/ AttentionForward
    \/ ConvolutionForward
    \/ BoomForward
    \/ LayerForward
    \/ DecoderForward
    \/ ForwardCausalLM
    \/ Return
Spec == Init /\ [][Next]_vars

\* a FastSelfAttention on its own
AttentionConfigs ==
    {c \in Configs : ~c.convolve /\ c.kernel_size = 1 /\ c.groups = HiddenSize
                      /\ c.num_hidden_layers = 1}
InitAttention == InitWith(AttentionConfigs)
NextAttention == SetTraining \/ AttentionForward \/ Return
SpecAttention == InitAttention /\ [][NextAttention]_vars

\* a CausalConvolution on its own, of every kernel size and grouping
ConvolutionConfigs == {c \in Configs : c.convolve /\ c.num_hidden_layers = 1}
InitConvolution == InitWith(ConvolutionConfigs)
NextConvolution == SetTraining \/ ConvolutionForward \/ Return
SpecConvolution == InitConvolution /\ [][NextConvolution]_vars

\* the three blocks of a layer, each called on its own
BlockConfigs == {c \in ConvolutionConfigs : c.pseed = 0 /\ c.groups = HiddenSize}
InitBlocks == InitWith(BlockConfigs)
NextBlocks ==
    SetTraining \/ AttentionForward \/ ConvolutionForward \/ BoomForward \/ Return
SpecBlocks == InitBlocks /\ [][NextBlocks]_vars

\* a FastformerLayer, with and without its convolution
StackConfigs ==
    {c \in Configs : c.groups = HiddenSize /\ (~c.convolve => c.kernel_size = 1)}
LayerConfigs == {c \in StackConfigs : c.num_hidden_layers = 1}
InitLayer == InitWith(LayerConfigs)
NextLayer == SetTraining \/ LayerForward \/ Return
SpecLayer == InitLayer /\ [][NextLayer]_vars

\* a FastformerDecoder of every depth
InitDecoder == InitWith(StackConfigs)
NextDecoder == SetTraining \/ DecoderForward \/ Return
SpecDecoder == InitDecoder /\ [][NextDecoder]_vars

\* the language model with its tied weights
ModelConfigs ==
    {c \in StackConfigs : c.pseed = 0 /\ c.kernel_size <= 2
                           /\ c.num_hidden_layers = 1}
InitModel == InitWith(ModelConfigs)
NextModel == SetTraining \/ OptimizerStep \/ ForwardCausalLM \/ Return
SpecModel == InitModel /\ [][NextModel]_vars

(* ------------------------------ properties ---------------------------- *)
WellShaped == last.mshape = <<last.xshape[1], last.xshape[2]>>
Finite(rows) == \A i \in DOMAIN rows : \A k \in DOMAIN rows[i] : rows[i][k] # NaN

\* the call in "last" made again with position j of the input replaced by v
\* and, for the operations that take one, position j of the mask by m
AttentionAt(j, v, m) ==
    FastSelfAttention(config.pseed, last.xshape, [last.x EXCEPT ![j] = v],
                      last.mshape, [last.mask EXCEPT ![j] = m],
                      last.training, last.seed, 0)
ConvolutionAt(j, v) ==
    CausalConvolution(config.pseed, config.kernel_size, config.groups,
                      last.xshape, [last.x EXCEPT ![j] = v],
                      last.training, last.seed, 0)
DecoderAt(j, v) ==
    FastformerDecoder(config.pseed, config, last.xshape,
                      [last.x EXCEPT ![j] = v], last.mshape, last.mask,
                      last.training, last.seed)

\* C1: a forward call with input_ids, labels and attention_mask returns the
\* pair (loss, logits); the loss is the cross entropy with label smoothing
\* 0.1 when the model is in training mode and without smoothing when it is
\* in evaluation mode.
C1_ForwardReturnsLoss ==
    last.op = "lm" =>
        /\ last.res.status = "returned"
        /\ last.res.shape = <<last.idshape[1], last.idshape[2], VocabSize>>
        /\ last.res.label_smoothing =
               IF last.training THEN LabelSmoothingTrain ELSE LabelSmoothingEval

\* C2: the attention is causal: the output, the pooled query and the pooled
\* keys at position i are the same whatever the hidden state and the mask
\* hold at any position j > i.
C2_AttentionCausal ==
    (last.op = "attention" /\ WellShaped) =>
        \A j \in DOMAIN last.x : \A v \in HiddenVecs, m \in {0, 1} :
            <<v, m>> # <<last.x[j], last.mask[j]>> =>
                LET again == AttentionAt(j, v, m)
                IN  \A i \in 1..(j - 1) :
                        /\ again.data[i] = last.res.data[i]
                        /\ again.qden[i] = last.res.qden[i]
                        /\ again.kden[i] = last.res.kden[i]

\* a call on a full sequence whose last position, once changed, changes the
\* output there while every output is a number
C2_Witness ==
    /\ last.op = "attention" /\ WellShaped
    /\ Len(last.x) = MaxSeq
    /\ Finite(last.res.data)
    /\ \E v \in HiddenVecs :
         AttentionAt(MaxSeq, v, last.mask[MaxSeq]).data[MaxSeq]
             # last.res.data[MaxSeq]

\* C3: the convolution pads kernel_size - 1 zeros on the left and none on
\* the right, and its output at position i is the same whatever the input
\* holds outside positions max(0, i - kernel_size + 1) .. i.
C3_ConvolutionCausal ==
    last.op = "convolution" =>
        /\ last.res.pad = [left |-> config.kernel_size - 1, right |-> 0]
        /\ \A j \in DOMAIN last.x : \A v \in HiddenVecs \ {last.x[j]} :
             LET again == ConvolutionAt(j, v)
             IN  \A i \in DOMAIN last.x :
                     (j > i \/ j < i - config.kernel_size + 1) =>
                         again.data[i] = last.res.data[i]

\* a kernel of three taps on a sequence of three: the first input reaches the
\* third output
C3_Witness ==
    /\ last.op = "convolution"
    /\ config.kernel_size = 3
    /\ Len(last.x) = 3
    /\ \E v \in HiddenVecs : ConvolutionAt(1, v).data[3] # last.res.data[3]

\* C4: the output projection and the word embedding hold one weight: at
\* every moment both names denote the same storage, so both read the same
\* values, after forward calls and after in-place updates through either.
C4_WeightsTied ==
    /\ model.weight["proj_logits"] = model.weight["word_embedding"]
    /\ Weight(model, "proj_logits") = Weight(model, "word_embedding")

\* a forward call made after an optimizer step changed the weight
C4_Witness ==
    /\ last.op = "lm"
    /\ Weight(model, "word_embedding") # EmbeddingInit(config.pseed)

\* C5: with a mask of zeros and ones, the running sums of the attention
\* weights that the pooled query and the pooled keys are divided by are never
\* zero, and no output is NaN, masked first position included.
C5_DenominatorsNonZero ==
    (last.op = "attention" /\ WellShaped) =>
        /\ \A i \in DOMAIN last.x :
             last.res.qden[i] # 0 /\ last.res.kden[i] # 0
        /\ Finite(last.res.data)

\* C6: the attention, the convolution and the feed-forward block each return
\* a tensor of the shape (batch, seq_len, hidden_size) of their input.
C6_ShapePreserved ==
    (/\ last.op \in {"attention", "convolution", "boom"}
     /\ last.op = "attention" => WellShaped) =>
        /\ last.res.shape = last.xshape
        /\ Len(last.res.data) = last.xshape[2]
        /\ \A i \in DOMAIN last.res.data : Len(last.res.data[i]) = last.xshape[3]

\* the convolution with its widest kernel on a batch of full sequences
C6_Witness ==
    /\ last.op = "convolution"
    /\ config.kernel_size = MaxKernel
    /\ last.xshape = <<MaxBatch, MaxSeq, HiddenSize>>
    /\ last.res.shape = <<MaxBatch, MaxSeq, HiddenSize>>

\* C7: the decoder as a whole is causal: with any number of layers, the
\* convolution on or off, a change of the input embedding at position j
\* leaves the final hidden state at every position before j as it was.
C7_DecoderCausal ==
    last.op = "decoder" =>
        \A j \in DOMAIN last.x : \A v \in HiddenVecs \ {last.x[j]} :
            LET again == DecoderAt(j, v)
            IN  \A i \in 1..(j - 1) : again.data[i] = last.res.data[i]

\* the deepest stack with its convolution, where a change of the last input
\* changes the last hidden state
C7_Witness ==
    /\ last.op = "decoder"
    /\ config.num_hidden_layers = MaxLayers
    /\ config.convolve /\ config.kernel_size = MaxKernel
    /\ Len(last.x) = MaxSeq
    /\ Finite(last.res.data)
    /\ \E v \in HiddenVecs :
         DecoderAt(MaxSeq, v).data[MaxSeq]
             # last.res.data[MaxSeq]

\* C8: an attention mask whose shape is not (batch, seq_len) of the hidden
\* states makes the attention raise an error; it is never broadcast.
C8_MaskMismatchRaises ==
    (last.op = "attention" /\ ~WellShaped) => last.res.shape = ShapeError

\* C9: a layer applies the convolution, then the attention, then the
\* feed-forward block; each block reads the running hidden state and its
\* output is added to it.  With the convolution disabled the attention comes
\* first and reads the layer's input.
LayerBlocks ==
    IF config.convolve THEN <<"convolution", "attention", "boom">>
    ELSE <<"attention", "boom">>

BlockOutput(name, input) ==
    CASE name = "convolution" ->
             CausalConvolution(config.pseed, config.kernel_size, config.groups,
                               last.xshape, input, last.training, last.seed, 1).data
      [] name = "attention" ->
             FastSelfAttention(config.pseed, last.xshape, input, last.mshape,
                               last.mask, last.training, last.seed, 2).data
      [] name = "boom" ->
             Boom(config.pseed, last.xshape, input, last.training, last.seed, 3).data

C9_LayerOrder ==
    (last.op = "layer" /\ WellShaped) =>
        /\ last.res.shape = last.xshape
        /\ Len(last.res.trace) = Len(LayerBlocks)
        /\ last.res.trace[1].input = last.x
        /\ \A n \in DOMAIN last.res.trace :
             /\ last.res.trace[n].block = LayerBlocks[n]
             /\ last.res.trace[n].output =
                    BlockOutput(LayerBlocks[n], last.res.trace[n].input)
             /\ AddRows(last.res.trace[n].input, last.res.trace[n].output) =
                    IF n = Len(last.res.trace) THEN last.res.data
                    ELSE last.res.trace[n + 1].input

\* a layer with its convolution whose three blocks each changed the hidden
\* state
C9_Witness ==
    /\ last.op = "layer" /\ WellShaped
    /\ config.convolve /\ config.kernel_size > 1
    /\ Len(last.x) > 1
    /\ Len(last.res.trace) = 3
    /\ Finite(last.res.data)
    /\ last.res.trace[2].input # last.x
    /\ last.res.trace[3].input # last.res.trace[2].input
    /\ last.res.data # last.res.trace[3].input

\* C10: the decoder hands the caller's mask to every layer as it received
\* it; every layer derives the same additive bias (0 where the mask is 1,
\* -10000 where it is 0), and the caller's mask is unchanged after the call.
C10_MaskUnchanged ==
    last.op = "decoder" =>
        /\ last.res.mask = last.mask
        /\ Len(last.res.layers) = config.num_hidden_layers
        /\ \A l \in DOMAIN last.res.layers :
             /\ last.res.layers[l].mask_in = last.mask
             /\ last.res.layers[l].bias =
                    [i \in DOMAIN last.mask |->
                        IF last.mask[i] = 1 THEN 0 ELSE MaskBias * Unit]

\* two layers that each received a mask with a masked position
C10_Witness ==
    /\ last.op = "decoder"
    /\ Len(last.res.layers) = MaxLayers
    /\ \E i \in DOMAIN last.mask : last.mask[i] = 0
    /\ \E i \in DOMAIN last.mask : last.mask[i] = 1

====
